---- MODULE Spec2Model ----
(***************************************************************************)
(* A model of lorenz_attractor.py: the Lorenz vector field                 *)
(* (lorenz_system), the trajectory sampler (ode_solution_points, a call of *)
(* scipy's solve_ivp on the grid np.arange(0, time, dt)) and the loop of   *)
(* LorenzAttractor.construct that builds one curve per initial state.      *)
(*                                                                         *)
(* Numbers.  Python floats are modelled by exact numbers.  Times are       *)
(* integers counted in units of the default sampling step (0.001), state   *)
(* coordinates are integers, sigma and rho are integers and beta is a      *)
(* rational [n, d] (its default is 8/3).                                   *)
(***************************************************************************)
EXTENDS Integers, Sequences, FiniteSets

VARIABLES
    fin,        \* arguments of the vector field call under study
    fout,       \* what that call returned (<<>> before the call)
    fprev,      \* what the previous call on the same state returned
    pc,         \* position of the current ode_solution_points call
    call,       \* its arguments
    solver,     \* the state of solve_ivp's integration loop
    result,     \* the value ode_solution_points returned
    error,      \* the exception it raised ("none" when it raised nothing)
    fieldEvals, \* the Parameters of every vector field evaluation of the call
    scene,      \* position of LorenzAttractor.construct
    states,     \* construct's list of initial states
    colors,     \* construct's list of colors
    curves,     \* construct's VGroup of curves
    idx,        \* index of the loop of construct (0-based)
    active      \* the loop iterations whose Sampler invocation is in progress

vars == <<fin, fout, fprev, pc, call, solver, result, error, fieldEvals,
          scene, states, colors, curves, idx, active>>

fieldVars == <<fin, fout, fprev>>
samplerVars == <<pc, call, solver, result, error, fieldEvals>>
sceneVars == <<scene, states, colors, curves, idx, active>>

---------------------------------------------------------------------------
(* Bounds of the model *)

MaxCoord == 2   \* field inputs: coordinates in -MaxCoord..MaxCoord
MaxTime == 4    \* sampler inputs: durations in -MaxTime..MaxTime
MaxStep == 3    \* sampler inputs: steps in -MaxStep..MaxStep
evol_time == 3  \* construct: evol_time (30 in the source), in sampling steps
Sub == 2        \* the solver's own times: multiples of 1/Sub of the unit

(* Program constants *)

DefaultSigma == 10
DefaultRho == 28
DefaultBeta == [n |-> 8, d |-> 3]
DefaultDt == 1      \* dt = 0.001, the model's unit of time
n_points == 6
Scale == 1000       \* 1 / epsilon: construct's coordinates in units of epsilon

Abs(a) == IF a < 0 THEN -a ELSE a

---------------------------------------------------------------------------
(* lorenz_system *)

\* A faulty variant: the sign of the damping term of dz/dt is flipped.
lorenz_system_flipped(t, state, sigma, rho, beta) ==
    LET x == state[1]
        y == state[2]
        z == state[3]
    IN  <<sigma * (y - x),
          x * (rho - z) - y,
          [n |-> x * y * beta.d + beta.n * z, d |-> beta.d]>>

\* A faulty variant: the field drifts with time.
lorenz_system_timed(t, state, sigma, rho, beta) ==
    LET x == state[1]
        y == state[2]
        z == state[3]
    IN  <<sigma * (y - x) + t,
          x * (rho - z) - y,
          [n |-> x * y * beta.d - beta.n * z, d |-> beta.d]>>

\* The derivative vector [dxdt, dydt, dzdt]; dzdt = x*y - beta*z is the
\* rational (x*y*beta.d - beta.n*z) / beta.d.
lorenz_system(t, state, sigma, rho, beta) ==
    LET x == state[1]
        y == state[2]
        z == state[3]
        dxdt == sigma * (y - x)
        dydt == x * (rho - z) - y
        dzdt == [n |-> x * y * beta.d - beta.n * z, d |-> beta.d]
    IN  <<dxdt, dydt, dzdt>>

Coords == -MaxCoord..MaxCoord
FieldStates == Coords \X Coords \X Coords
Sigmas == {1, DefaultSigma}
Rhos == {2, 3, DefaultRho}
Betas == {[n |-> 1, d |-> 1], [n |-> 2, d |-> 1], DefaultBeta}
FieldTimes == {0, 1}

FieldInputs ==
    [t : FieldTimes, state : FieldStates, sigma : Sigmas, rho : Rhos, beta : Betas]

\* A caller evaluates the field on its arguments.
EvalField ==
    /\ fout = <<>>
    /\ fout' = lorenz_system(fin.t, fin.state, fin.sigma, fin.rho, fin.beta)
    /\ UNCHANGED <<fin, fprev>>

\* The caller evaluates it again on the same state at another time, as an
\* adaptive solver does at its sub-step times.
EvalFieldAgain ==
    /\ fout # <<>>
    /\ fprev = <<>>
    /\ \E t2 \in FieldTimes \ {fin.t} :
        /\ fin' = [fin EXCEPT !.t = t2]
        /\ fprev' = fout
        /\ fout' = lorenz_system(t2, fin.state, fin.sigma, fin.rho, fin.beta)

---------------------------------------------------------------------------
(* ode_solution_points *)

SamplerStates == {<<1, 1, 1>>, <<10, 10, 10>>}
Durations == -MaxTime..MaxTime
Steps == -MaxStep..MaxStep

DefaultParameters ==
    [sigma |-> DefaultSigma, rho |-> DefaultRho, beta |-> DefaultBeta]

\* The Parameters a caller may want a Trajectory computed with.
WantedParameters ==
    {DefaultParameters, [sigma |-> 1, rho |-> 2, beta |-> [n |-> 1, d |-> 1]]}

\* A faulty variant: the grid as floor(stop / step) points.
ArangeLenFloor(stop, step) ==
    IF stop * step > 0 THEN Abs(stop) \div Abs(step) ELSE 0

\* len(np.arange(0, stop, step)) for step # 0: ceil(stop / step), at least 0.
ArangeLen(stop, step) ==
    IF stop * step > 0 THEN (Abs(stop) + Abs(step) - 1) \div Abs(step) ELSE 0

\* A faulty variant: the grid starts one step late.
ArangeLate(stop, step) ==
    [k \in 1..ArangeLen(stop, step) |-> k * step]

\* np.arange(0, stop, step) for step # 0: 0, step, 2*step, ... short of stop.
Arange(stop, step) ==
    [k \in 1..ArangeLen(stop, step) |-> (k - 1) * step]

\* The Parameters of the solver's evaluations of the field.  solve_ivp calls
\* fun(t, y): no args= is passed to it, so that lorenz_system runs with the
\* defaults of its signature.
SolverFunParameters == DefaultParameters

\* The direction of integration of solve_ivp over t_span = (0, time).
Direction(time) == IF time < 0 THEN -1 ELSE 1

\* The solver's own times are counted in 1/Sub of the unit of time: an
\* adaptive step may end between two values of t_eval.
SolverTimes == (-MaxTime * Sub)..(MaxTime * Sub)

\* The number of values of t_eval the solver has passed when it stands at t
\* (np.searchsorted on t_eval, the value equal to t included).
Passed(t_eval, time, t) ==
    Cardinality({k \in 1..Len(t_eval) :
                    Direction(time) * t_eval[k] * Sub <= Direction(time) * t})

\* One column of solution.y: the solver's dense output for the initial value
\* problem from y0, at the time t.  At t = 0 the dense output is y0 itself.
Point(y0, t) == [ivp |-> y0, at |-> t]

IdleSolver == [t |-> 0, status |-> "idle", t_eval |-> <<>>, ts |-> <<>>]

\* The call ode_solution_points(lorenz_system, state0, time, dt), up to the
\* start of solve_ivp's loop.  params is what the caller wants the field
\* evaluated with: the signature has no argument that takes it.
Begin(state0, time, dt, params) ==
    /\ call' = [state0 |-> state0, time |-> time, dt |-> dt, params |-> params]
    /\ result' = <<>>
    /\ IF dt = 0
       THEN \* np.arange refuses a zero step
            /\ pc' = "raised"
            /\ error' \in {"ZeroDivisionError", "ValueError"}
            /\ solver' = IdleSolver
            /\ fieldEvals' = {}
       ELSE \* the solver is built: it evaluates fun at (0, state0)
            /\ pc' = "solving"
            /\ error' = "none"
            /\ solver' = [t |-> 0, status |-> "running",
                          t_eval |-> Arange(time, dt), ts |-> <<>>]
            /\ fieldEvals' = {SolverFunParameters}

Invoke ==
    /\ pc \in {"idle", "returned", "raised"}
    /\ \E state0 \in SamplerStates, time \in Durations, dt \in Steps,
          params \in WantedParameters :
        Begin(state0, time, dt, params)
    /\ UNCHANGED <<fieldVars, sceneVars>>

\* The values of t_eval output once the solver stands at t.
Sampled(t) ==
    SubSeq(solver.t_eval, 1, Passed(solver.t_eval, call.time, t))

\* One turn of solve_ivp's loop: solver.step(), then the output of the values
\* of t_eval the step has passed.
SolverStep ==
    /\ pc = "solving"
    /\ solver.status = "running"
    /\ \/ \* t = t_bound: the solver finishes without a step
          /\ solver.t = call.time * Sub
          /\ solver' = [solver EXCEPT !.status = "finished",
                                      !.ts = Sampled(solver.t)]
          /\ UNCHANGED fieldEvals
       \/ \* a step the error control accepts, to some t up to t_bound
          /\ solver.t # call.time * Sub
          /\ \E tn \in SolverTimes :
                /\ Direction(call.time) * (tn - solver.t) > 0
                /\ Direction(call.time) * (call.time * Sub - tn) >= 0
                /\ solver' = [solver EXCEPT
                     !.t = tn,
                     !.status = IF tn = call.time * Sub THEN "finished" ELSE "running",
                     !.ts = Sampled(tn)]
          /\ fieldEvals' = fieldEvals \cup {SolverFunParameters}
       \/ \* the step size falls under the smallest the solver allows
          /\ solver.t # call.time * Sub
          /\ solver' = [solver EXCEPT !.status = "failed"]
          /\ fieldEvals' = fieldEvals \cup {SolverFunParameters}
    /\ UNCHANGED <<pc, call, result, error, fieldVars, sceneVars>>

\* return solution.y.T: solution.status and solution.success are not read.
\* With no value of t_eval output, solution.y is not an array and the
\* expression raises.
ReturnValue ==
    IF solver.ts = <<>>
    THEN [pc |-> "raised", result |-> <<>>]
    ELSE [pc |-> "returned",
          result |-> [k \in 1..Len(solver.ts) |-> Point(call.state0, solver.ts[k])]]

Return ==
    /\ pc = "solving"
    /\ solver.status \in {"finished", "failed"}
    /\ pc' = ReturnValue.pc
    /\ result' = ReturnValue.result
    /\ IF ReturnValue.pc = "raised"
       THEN error' \in {"AttributeError", "ValueError"}
       ELSE error' = "none"
    /\ UNCHANGED <<call, solver, fieldEvals, fieldVars, sceneVars>>

---------------------------------------------------------------------------
(* LorenzAttractor.construct: the generation of the curves *)

\* states = [[10, 10, 10 + n * epsilon] for n in range(n_points)], the
\* coordinates counted in units of epsilon.
ClusteredStates ==
    [k \in 1..n_points |-> <<10 * Scale, 10 * Scale, 10 * Scale + (k - 1)>>]

\* color_gradient(..., len(states)): one color per state, named by its rank.
ColorGradient(n) == [k \in 1..n |-> k]

\* A faulty variant: the colors are paired with the states from the other end.
ZipReversed(ss, cs) ==
    [k \in 1..(IF Len(ss) < Len(cs) THEN Len(ss) ELSE Len(cs)) |->
        [state |-> ss[k], color |-> cs[Len(cs) + 1 - k]]]

\* zip(states, colors): the pairs the loop runs over.
Zip(ss, cs) ==
    [k \in 1..(IF Len(ss) < Len(cs) THEN Len(ss) ELSE Len(cs)) |->
        [state |-> ss[k], color |-> cs[k]]]

\* A faulty variant: the new curve is put in front of the others.
AddCurveFirst(group, curve) == <<curve>> \o group

\* curves.add(curve): the new curve becomes the last submobject.
AddCurve(group, curve) == Append(group, curve)

\* Lines 93 to 110: the lists of states and colors, the empty VGroup.
Setup ==
    /\ scene = "start"
    /\ states' = ClusteredStates
    /\ colors' = ColorGradient(Len(ClusteredStates))
    /\ curves' = <<>>
    /\ idx' = 0
    /\ scene' = "loop"
    /\ UNCHANGED <<active, samplerVars, fieldVars>>

\* points = ode_solution_points(lorenz_system, state, time=evol_time)
SceneCall ==
    /\ scene = "loop"
    /\ idx < Len(Zip(states, colors))
    /\ Begin(Zip(states, colors)[idx + 1].state, evol_time, DefaultDt,
             DefaultParameters)
    /\ active' = active \cup {idx}
    /\ scene' = "sampling"
    /\ UNCHANGED <<states, colors, curves, idx, fieldVars>>

\* The rest of the loop body: the curve through the points, its color, and
\* curves.add(curve); then the next pair of zip, or the end of the loop.
SceneAdd ==
    /\ scene = "sampling"
    /\ pc = "returned"
    /\ curves' = AddCurve(curves, [points |-> result,
                                   color |-> Zip(states, colors)[idx + 1].color])
    /\ active' = active \ {idx}
    /\ idx' = idx + 1
    /\ scene' = IF idx + 1 < Len(Zip(states, colors)) THEN "loop" ELSE "done"
    /\ UNCHANGED <<states, colors, samplerVars, fieldVars>>

\* An exception of ode_solution_points leaves construct.
SceneAbort ==
    /\ scene = "sampling"
    /\ pc = "raised"
    /\ active' = active \ {idx}
    /\ scene' = "aborted"
    /\ UNCHANGED <<states, colors, curves, idx, samplerVars, fieldVars>>

---------------------------------------------------------------------------
(* The specifications *)

NoCall == [state0 |-> <<0, 0, 0>>, time |-> 0, dt |-> 0, params |-> DefaultParameters]

InitSampler ==
    /\ pc = "idle"
    /\ call = NoCall
    /\ solver = IdleSolver
    /\ result = <<>>
    /\ error = "none"
    /\ fieldEvals = {}

InitScene ==
    /\ scene = "start"
    /\ states = <<>>
    /\ colors = <<>>
    /\ curves = <<>>
    /\ idx = 0
    /\ active = {}

NoField ==
    [t |-> 0, state |-> <<0, 0, 0>>, sigma |-> DefaultSigma, rho |-> DefaultRho,
     beta |-> DefaultBeta]

InitField ==
    /\ fin = NoField
    /\ fout = <<>>
    /\ fprev = <<>>

\* The sampler, called any number of times on any arguments.
Init == InitSampler /\ InitScene /\ InitField

Next == Invoke \/ SolverStep \/ Return

Spec == Init /\ [][Next]_vars

\* The vector field, on every input of the bounded sets.
FieldInit ==
    /\ fin \in FieldInputs
    /\ fout = <<>>
    /\ fprev = <<>>
    /\ InitSampler
    /\ InitScene

FieldNext ==
    \/ EvalField /\ UNCHANGED <<samplerVars, sceneVars>>
    \/ EvalFieldAgain /\ UNCHANGED <<samplerVars, sceneVars>>

FieldSpec == FieldInit /\ [][FieldNext]_vars

\* construct's loop over the initial states.
SceneNext == Setup \/ SceneCall \/ SolverStep \/ Return \/ SceneAdd \/ SceneAbort

SceneSpec == Init /\ [][SceneNext]_vars

---------------------------------------------------------------------------
(* The claims about the sampler, under Spec *)

\* The call has ended, by a return or by an exception.
Ended == pc \in {"returned", "raised"}

\* The inputs the sampler's contract calls valid.
ValidInputs == call.time > 0 /\ call.dt > 0 /\ call.dt <= call.time

\* The number of grid times 0, dt, 2dt, ... that lie before T.
GridSize == Cardinality({k \in 0..call.time : k * call.dt < call.time})

SampleTimesIncrease ==
    \A i, j \in 1..Len(result) : i < j => result[i].at < result[j].at

\* C1 as stated: on valid inputs the Trajectory has floor(T/dt) points and
\* increasing sample times.  Read here on the calls whose solver succeeded.
C1_FloorLength ==
    (pc = "returned" /\ ValidInputs /\ solver.status = "finished") =>
        /\ Len(result) = call.time \div call.dt
        /\ SampleTimesIncrease

\* C1 amended: on valid inputs a returned Trajectory has at most ceil(T/dt)
\* points, one per grid time k*dt < T, exactly that many when the solver
\* succeeded, and its sample times increase strictly.
C1_CeilLength ==
    (pc = "returned" /\ ValidInputs) =>
        /\ Len(result) <= GridSize
        /\ solver.status = "finished" => Len(result) = GridSize
        /\ SampleTimesIncrease

\* A successful call whose step does not divide its duration.
C1_Witness ==
    /\ pc = "returned"
    /\ ValidInputs
    /\ solver.status = "finished"
    /\ call.time % call.dt # 0
    /\ Len(result) = (call.time \div call.dt) + 1

\* C2, its last clause: with a duration T <= 0 no Trajectory is returned.
C2_NoTrajectoryForBadDuration ==
    call.time <= 0 => pc # "returned"

\* C3, its last clause: with a step dt > T > 0 no Trajectory is returned.
C3_NoTrajectoryForLongStep ==
    (call.time > 0 /\ call.dt > call.time) => pc # "returned"

\* C4, its last clause, on valid inputs: a call whose solver ended in its
\* failed state returns no point sequence (it reports NonConvergence).
C4_FailureIsReported ==
    (ValidInputs /\ Ended /\ solver.status = "failed") => pc # "returned"

\* C5: on valid inputs the k-th point of a returned Trajectory is the solution
\* from state0 sampled at k*dt (k from 0), every sample time lies in [0, T),
\* and the Trajectory is not empty: its point 0 is the solution at t = 0,
\* which is state0.
C5_GridPoints ==
    (pc = "returned" /\ ValidInputs) =>
        /\ Len(result) >= 1
        /\ result[1] = [ivp |-> call.state0, at |-> 0]
        /\ \A k \in 1..Len(result) :
              /\ result[k].at = (k - 1) * call.dt
              /\ result[k].at >= 0
              /\ result[k].at < call.time
              /\ result[k].ivp = call.state0

\* A returned Trajectory of several points, from a step that does not
\* divide the duration.
C5_Witness ==
    /\ pc = "returned"
    /\ ValidInputs
    /\ Len(result) >= 2
    /\ call.time % call.dt # 0

\* C8, on valid inputs: every vector field evaluation made for a returned
\* Trajectory used the Parameters the caller supplied for that Trajectory.
C8_SuppliedParametersUsed ==
    (pc = "returned" /\ ValidInputs) =>
        \A used \in fieldEvals : used = call.params

---------------------------------------------------------------------------
(* The claims about the vector field, under FieldSpec *)

IsZeroVector(v) == v[1] = 0 /\ v[2] = 0 /\ v[3].n = 0

\* x = y and z = x*y/beta, that is z*beta = x*y.
OnClaimedFixedPoint ==
    /\ fin.state[1] = fin.state[2]
    /\ fin.state[3] * fin.beta.n = fin.state[1] * fin.state[2] * fin.beta.d

\* C6 as stated: at every State with x = y and z = x*y/beta the field
\* returns (0, 0, 0).
C6_ZeroWhereClaimed ==
    (fout # <<>> /\ OnClaimedFixedPoint) => IsZeroVector(fout)

\* C6 amended: at every State with x = y, z = x*y/beta and, besides,
\* z = rho - 1 or x = 0, the field returns (0, 0, 0), at every time t.
C6_ZeroAtEquilibrium ==
    (/\ fout # <<>>
     /\ OnClaimedFixedPoint
     /\ (fin.state[3] = fin.rho - 1 \/ fin.state[1] = 0)) => IsZeroVector(fout)

\* The field evaluated at an equilibrium away from the origin.
C6_Witness ==
    /\ fout # <<>>
    /\ OnClaimedFixedPoint
    /\ fin.state[3] = fin.rho - 1
    /\ fin.state[1] # 0
    /\ IsZeroVector(fout)

\* The value the contract gives for the call in fin, dz/dt as a rational
\* compared by cross-multiplication.
IsContractValue(v) ==
    /\ v[1] = fin.sigma * (fin.state[2] - fin.state[1])
    /\ v[2] = fin.state[1] * (fin.rho - fin.state[3]) - fin.state[2]
    /\ v[3].d # 0
    /\ v[3].n * fin.beta.d =
         (fin.state[1] * fin.state[2] * fin.beta.d - fin.beta.n * fin.state[3])
            * v[3].d

\* C7: lorenz_system returns [sigma*(y-x), x*(rho-z)-y, x*y-beta*z]; two
\* calls that differ only in t return the same vector; a call changes neither
\* its state argument or parameters nor any other variable.
C7_FieldContract ==
    /\ [](fout # <<>> => IsContractValue(fout))
    /\ []((fout # <<>> /\ fprev # <<>>) => fprev = fout)
    /\ [][/\ fin'.state = fin.state
          /\ fin'.sigma = fin.sigma /\ fin'.rho = fin.rho /\ fin'.beta = fin.beta
          /\ UNCHANGED <<samplerVars, sceneVars>>]_vars

\* Two calls at different times on a State off the axes.
C7_Witness ==
    /\ fout # <<>>
    /\ fprev # <<>>
    /\ fin.t = 1
    /\ fin.state = <<1, 2, -1>>
    /\ fin.beta = DefaultBeta

---------------------------------------------------------------------------
(* The claims about construct, under SceneSpec *)

\* The curve is the Trajectory computed from the initial state s: its points
\* are the solution from s at the first grid times 0, dt, 2dt, ...
IsTrajectoryFrom(points, s) ==
    /\ points # <<>>
    /\ \A k \in 1..Len(points) :
          points[k] = [ivp |-> s, at |-> (k - 1) * DefaultDt]

\* C9: at every step of the loop the curves added so far are, in order, the
\* Trajectories of the initial states processed so far, the i-th of them
\* computed from [10, 10, 10 + i*epsilon] and carrying the i-th color; after
\* the loop there are exactly n_points of them.
C9_EnsembleOrder ==
    scene # "start" =>
        /\ Len(states) = n_points
        /\ Len(curves) = idx
        /\ \A i \in 1..Len(curves) :
              /\ states[i] = <<10 * Scale, 10 * Scale, 10 * Scale + (i - 1)>>
              /\ IsTrajectoryFrom(curves[i].points, states[i])
              /\ curves[i].color = colors[i]
        /\ \A i, j \in 1..Len(curves) : i # j => curves[i] # curves[j]
        /\ scene = "done" => Len(curves) = n_points

\* The loop has ended with all its curves.
C9_Witness ==
    /\ scene = "done"
    /\ Len(curves) = n_points
    /\ curves[n_points].points[1].ivp = <<10 * Scale, 10 * Scale, 10 * Scale + 5>>

\* C10: at most one Sampler invocation is in progress at any time; the one
\* in progress is that of the next initial state, started with every earlier
\* Trajectory already in curves, and reads that state and the shared T and dt;
\* a curve once added is never changed or moved by a later step.
C10_OneAtATime ==
    /\ [](/\ Cardinality(active) <= 1
          /\ pc = "solving" =>
                /\ active = {idx}
                /\ Len(curves) = idx
                /\ call.state0 = states[idx + 1]
                /\ call.time = evol_time
                /\ call.dt = DefaultDt)
    /\ [][/\ Len(curves') >= Len(curves)
          /\ SubSeq(curves', 1, Len(curves)) = curves]_vars

\* A later invocation in progress while earlier Trajectories are in curves.
C10_Witness ==
    /\ scene = "sampling"
    /\ pc = "solving"
    /\ solver.ts # <<>>
    /\ idx = 2
    /\ Len(curves) = 2

====
